---- MODULE Spec2Model ----
(***************************************************************************)
(* Model of the PDF inspection data extractor (app.py, streamlit.py).      *)
(*                                                                         *)
(* A page text is a sequence of tokens.  A token is either one whitespace  *)
(* character (" ", "\n", "\t") or a run of non-whitespace characters: a    *)
(* word of a label ("Store", "ID", ...), the "." of "Document No.", or a   *)
(* data word ("x", "y", "z").  Two adjacent non-whitespace tokens stand    *)
(* for their concatenation (<<"x", "Name">> is the text "xName").  No      *)
(* token of the alphabet occurs inside another one, so a regular           *)
(* expression of the rule tables matches the character string exactly      *)
(* where its token form matches the token sequence.                        *)
(*                                                                         *)
(* Python values: a str is Str(s) with s a token sequence, None is None.   *)
(* A dict is the sequence of its <<key, value>> items in insertion order.  *)
(***************************************************************************)
EXTENDS Integers, Sequences, FiniteSets, TLC

None == <<"None">>
Str(s) == <<"str", s>>
IsStr(v) == v # None
Val(v) == v[2]

SP == " "
NL == "\n"
TAB == "\t"

\* str.isspace() / the regex class \s, on the characters the model uses
IsSpace(c) == c \in {SP, NL, TAB}

(***************************************************************************)
(* Regular expressions: a pattern is a sequence of nodes.                  *)
(***************************************************************************)
Lit(s) == [op |-> "lit", s |-> s]
Plus(cls) == [op |-> "+", cls |-> cls]          \* greedy  X+
LazyPlus(cls) == [op |-> "+?", cls |-> cls]     \* lazy    X+?
Open == [op |-> "("]
Close == [op |-> ")"]
LookAhead(sub) == [op |-> "(?=", sub |-> sub]   \* (?=...)

WS == "\\s"
NOTNL == "[^\\n]"
ANY == "[\\s\\S]"
NOTWS == "\\S"

InClass(cls, c) ==
    CASE cls = WS -> IsSpace(c)
      [] cls = NOTNL -> c # NL
      [] cls = ANY -> TRUE
      [] cls = NOTWS -> ~IsSpace(c)

\* a label written with single spaces between its words
RECURSIVE Words(_)
Words(ws) ==
    IF Len(ws) <= 1 THEN ws
    ELSE <<Head(ws), SP>> \o Words(Tail(ws))

HasPrefixAt(t, i, s) ==
    /\ i + Len(s) - 1 <= Len(t)
    /\ \A j \in 1..Len(s) : t[i + j - 1] = s[j]

\* number of consecutive tokens of class cls starting at position i
RECURSIVE Run(_, _, _)
Run(cls, t, i) ==
    IF i <= Len(t) /\ InClass(cls, t[i]) THEN 1 + Run(cls, t, i + 1) ELSE 0

Fail == [ok |-> FALSE]

\* Backtracking matcher, in the order of Python's re module: Match(p, k, t,
\* i, cap) matches nodes k.. of p at position i of t; it returns the first
\* successful path (greedy: longest repetition first; lazy: shortest first).
RECURSIVE Match(_, _, _, _, _), Greedy(_, _, _, _, _, _), Lazy(_, _, _, _, _, _, _)
Match(p, k, t, i, cap) ==
    IF k > Len(p) THEN [ok |-> TRUE, start |-> cap.start, end |-> cap.end]
    ELSE LET n == p[k] IN
      CASE n.op = "lit" ->
             IF HasPrefixAt(t, i, n.s) THEN Match(p, k + 1, t, i + Len(n.s), cap)
             ELSE Fail
        [] n.op = "(" -> Match(p, k + 1, t, i, [cap EXCEPT !.start = i])
        [] n.op = ")" -> Match(p, k + 1, t, i, [cap EXCEPT !.end = i])
        [] n.op = "+" -> Greedy(p, k, t, i, Run(n.cls, t, i), cap)
        [] n.op = "+?" -> Lazy(p, k, t, i, 1, Run(n.cls, t, i), cap)
        [] n.op = "(?=" ->
             IF Match(n.sub, 1, t, i, cap).ok THEN Match(p, k + 1, t, i, cap)
             ELSE Fail

Greedy(p, k, t, i, n, cap) ==
    IF n < 1 THEN Fail
    ELSE LET r == Match(p, k + 1, t, i + n, cap) IN
         IF r.ok THEN r ELSE Greedy(p, k, t, i, n - 1, cap)

Lazy(p, k, t, i, n, max, cap) ==
    IF n > max THEN Fail
    ELSE LET r == Match(p, k + 1, t, i + n, cap) IN
         IF r.ok THEN r ELSE Lazy(p, k, t, i, n + 1, max, cap)

\* re.search(pattern, text): the match at the leftmost position that has one
RECURSIVE SearchFrom(_, _, _)
SearchFrom(p, t, i) ==
    IF i > Len(t) + 1 THEN Fail
    ELSE LET r == Match(p, 1, t, i, [start |-> i, end |-> i]) IN
         IF r.ok THEN [ok |-> TRUE, pos |-> i, start |-> r.start, end |-> r.end]
         ELSE SearchFrom(p, t, i + 1)

re_search(p, t) == SearchFrom(p, t, 1)

\* match.group(1)
group1(t, m) == SubSeq(t, m.start, m.end - 1)

(***************************************************************************)
(* str.strip(), str.split(), " ".join(...)                                 *)
(***************************************************************************)
RECURSIVE lstrip(_)
lstrip(s) == IF s # <<>> /\ IsSpace(Head(s)) THEN lstrip(Tail(s)) ELSE s

RECURSIVE rstrip(_)
rstrip(s) ==
    IF s # <<>> /\ IsSpace(s[Len(s)]) THEN rstrip(SubSeq(s, 1, Len(s) - 1)) ELSE s

strip(s) == rstrip(lstrip(s))

\* str.split(): the maximal runs of non-whitespace, in order
RECURSIVE split(_)
split(s) ==
    LET r == lstrip(s)
        n == IF r = <<>> THEN 0 ELSE Run(NOTWS, r, 1)
    IN IF r = <<>> THEN <<>>
       ELSE <<SubSeq(r, 1, n)>> \o split(SubSeq(r, n + 1, Len(r)))

RECURSIVE join(_, _)
join(sep, ws) ==
    IF ws = <<>> THEN <<>>
    ELSE IF Len(ws) = 1 THEN ws[1]
    ELSE ws[1] \o sep \o join(sep, Tail(ws))

(***************************************************************************)
(* dict: items in insertion order; d[k] = v replaces in place or appends   *)
(***************************************************************************)
DictHas(d, k) == \E j \in 1..Len(d) : d[j][1] = k
DictSet(d, k, v) ==
    IF DictHas(d, k)
    THEN [j \in 1..Len(d) |-> IF d[j][1] = k THEN <<k, v>> ELSE d[j]]
    ELSE Append(d, <<k, v>>)
DictGet(d, k) == d[CHOOSE j \in 1..Len(d) : d[j][1] = k][2]
DictKeys(d) == [j \in 1..Len(d) |-> d[j][1]]

(***************************************************************************)
(* Pattern definitions                                                     *)
(***************************************************************************)
L_StoreIDandName == Words(<<"Store", "ID", "and", "Name">>)
L_Tracker == <<"Tracker">>
L_Inspector == <<"Inspector">>
L_ProjectTeamPIC == Words(<<"Project", "Team", "PIC">>)
L_ProjectTeamPresent == Words(<<"Project", "Team", "Present">>)
L_ContractorPIC == Words(<<"Contractor", "PIC">>)
L_ContractorPresent == Words(<<"Contractor", "Present">>)
L_IssueDate == Words(<<"Issue", "Date">>)
L_InspectionDate == Words(<<"Inspection", "Date">>)
L_ReportDate == Words(<<"Report", "Date">>)
L_HandoverDate == Words(<<"Handover", "Date">>)
L_DocumentNo == Words(<<"Document", "No">>) \o <<".">>
L_AuditTitle == Words(<<"Audit", "Title">>)
L_SiteName == Words(<<"Site", "Name">>)
L_Location == <<"Location">>
L_ProjectPICPresent == Words(<<"Project", "PIC", "Present">>)
L_Name == <<"Name">>
L_Inspectedby == Words(<<"Inspected", "by">>)
L_Preparedby == Words(<<"Prepared", "by">>)

\* r"LABEL\s+([^\n]+)"
SingleLine(label) == <<Lit(label), Plus(WS), Open, Plus(NOTNL), Close>>
\* r"LABEL\s+([\s\S]+?)\s+NEXT"
Bounded(label, next) ==
    <<Lit(label), Plus(WS), Open, LazyPlus(ANY), Close, Plus(WS), Lit(next)>>
\* mutant: any text, of any number of lines, between the header and "Name"
Compound_any_text(label) ==
    <<Lit(label), Plus(WS), LazyPlus(ANY), Plus(WS), Lit(L_Name), Plus(WS),
      Open, Plus(NOTNL), Close>>

\* r"LABEL\s+[^\n]+\s+Name\s+([^\n]+)"
Compound(label) ==
    <<Lit(label), Plus(WS), Plus(NOTNL), Plus(WS), Lit(L_Name), Plus(WS),
      Open, Plus(NOTNL), Close>>
\* r"([^\n]+)(?=\s+Store ID and Name)"
P_Inspection ==
    <<Open, Plus(NOTNL), Close, LookAhead(<<Plus(WS), Lit(L_StoreIDandName)>>)>>

PATTERNS_TYPE_1 == <<
    <<"Inspection", P_Inspection>>,
    <<"Store ID and Name", Bounded(L_StoreIDandName, L_Tracker)>>,
    <<"Tracker", Bounded(L_Tracker, L_Inspector)>>,
    <<"Inspector", SingleLine(L_Inspector)>>,
    <<"Project Team PIC", SingleLine(L_ProjectTeamPIC)>>,
    <<"Project Team Present", SingleLine(L_ProjectTeamPresent)>>,
    <<"Contractor PIC", SingleLine(L_ContractorPIC)>>,
    <<"Contractor Present", SingleLine(L_ContractorPresent)>>,
    <<"Issue Date", SingleLine(L_IssueDate)>>,
    <<"Inspection Date", SingleLine(L_InspectionDate)>>,
    <<"Report Date", SingleLine(L_ReportDate)>>,
    <<"Handover Date", SingleLine(L_HandoverDate)>> >>

PATTERNS_TYPE_2 == <<
    <<"Document No.", SingleLine(L_DocumentNo)>>,
    <<"Audit Title", SingleLine(L_AuditTitle)>>,
    <<"Site Name", SingleLine(L_SiteName)>>,
    <<"Location", Bounded(L_Location, L_ContractorPresent)>>,
    <<"Contractor Present", SingleLine(L_ContractorPresent)>>,
    <<"Contractor Name", Compound(L_ContractorPresent)>>,
    <<"Project PIC Present", SingleLine(L_ProjectPICPresent)>>,
    <<"Project PIC Name", Compound(L_ProjectPICPresent)>>,
    <<"Inspected by", SingleLine(L_Inspectedby)>>,
    <<"Inspection Date", SingleLine(L_InspectionDate)>>,
    <<"Prepared by", SingleLine(L_Preparedby)>> >>

TYPE_1 == Str(<<"type_1">>)
TYPE_2 == Str(<<"type_2">>)

(***************************************************************************)
(* Detect PDF type                                                         *)
(***************************************************************************)
\* mutant: the two checks in the other order
detect_document_type_store_first(text) ==
    IF re_search(<<Lit(L_StoreIDandName)>>, text).ok THEN TYPE_1
    ELSE IF re_search(<<Lit(L_DocumentNo)>>, text).ok THEN TYPE_2
    ELSE None

detect_document_type(text) ==
    IF re_search(<<Lit(L_DocumentNo)>>, text).ok THEN TYPE_2
    ELSE IF re_search(<<Lit(L_StoreIDandName)>>, text).ok THEN TYPE_1
    ELSE None

(***************************************************************************)
(* Extract data by type                                                    *)
(***************************************************************************)
\* mutant: strip() without the split/join
normalize_strip_only(value) == strip(value)

\* value = match.group(1).strip(); value = " ".join(value.split())
normalize(value) == join(<<SP>>, split(strip(value)))

\* mutant: a failed match stored as the empty string
extract_field_empty(text, pattern) ==
    LET match == re_search(pattern, text) IN
    IF match.ok
    THEN Str(normalize(group1(text, match)))
    ELSE Str(<<>>)

\* one iteration of the loop over patterns.items()
extract_field(text, pattern) ==
    LET match == re_search(pattern, text) IN
    IF match.ok
    THEN Str(normalize(group1(text, match)))
    ELSE None

\* mutant: the loop stops at the first pattern that does not match
RECURSIVE extract_loop_break(_, _, _, _)
extract_loop_break(text, patterns, k, data) ==
    IF k > Len(patterns) THEN data
    ELSE LET v == extract_field(text, patterns[k][2]) IN
         IF v = None THEN DictSet(data, patterns[k][1], None)
         ELSE extract_loop_break(text, patterns, k + 1, DictSet(data, patterns[k][1], v))

\* mutant: a field without a match gets no key
RECURSIVE extract_loop_skip_absent(_, _, _, _)
extract_loop_skip_absent(text, patterns, k, data) ==
    IF k > Len(patterns) THEN data
    ELSE LET v == extract_field(text, patterns[k][2]) IN
         extract_loop_skip_absent(text, patterns, k + 1,
             IF v = None THEN data ELSE DictSet(data, patterns[k][1], v))

RECURSIVE extract_loop(_, _, _, _)
extract_loop(text, patterns, k, data) ==
    IF k > Len(patterns) THEN data
    ELSE extract_loop(text, patterns, k + 1,
                      DictSet(data, patterns[k][1], extract_field(text, patterns[k][2])))

extract_data_by_type(text, doc_type) ==
    LET patterns == IF doc_type = TYPE_1 THEN PATTERNS_TYPE_1 ELSE PATTERNS_TYPE_2
        data == extract_loop(text, patterns, 1, <<>>)
    IN DictSet(data, "Document Type", doc_type)

(***************************************************************************)
(* Input texts: concatenations of at most n chunks drawn from a chunk set  *)
(***************************************************************************)
RECURSIVE Flatten(_)
Flatten(cs) == IF cs = <<>> THEN <<>> ELSE Head(cs) \o Flatten(Tail(cs))

Texts(chunks, n) ==
    { Flatten(cs) : cs \in UNION { [1..k -> chunks] : k \in 0..n } }

MaxChunks == 5

\* The two scenarios of the specification's testable properties
ScenarioA ==
    <<"Jane", SP, "Doe", NL>> \o L_StoreIDandName \o <<NL, "001", SP, "-", SP, "Main", SP, "St", NL>>
    \o L_Tracker \o <<NL, "INS-2024", NL>> \o L_Inspector \o <<NL, "John", SP, "Smith">>
ScenarioB ==
    L_DocumentNo \o <<NL, "DOC-55", NL>> \o L_AuditTitle \o <<NL, "Q1", SP, "Review", NL>>
    \o L_ContractorPresent \o <<NL, "Yes", NL>> \o L_Name \o <<NL, "Acme", SP, "Co">>

ScenarioBoth ==
    L_ContractorPresent \o <<NL, "Yes", NL>> \o L_Name \o <<NL, "Acme", SP, "Co", NL>>
    \o L_ProjectPICPresent \o <<NL, "No", NL>> \o L_Name \o <<NL, "Bob">>

(***************************************************************************)
(* PDF text extraction.  A PDF is [ok, pages]: ok = FALSE is a file that   *)
(* pdfium cannot open (PdfDocument raises); pages are the page texts.      *)
(***************************************************************************)
Pdf(pages) == [ok |-> TRUE, pages |-> pages]
CorruptPdf == [ok |-> FALSE, pages |-> <<>>]

Raised == [raised |-> TRUE]
Returned(v) == [raised |-> FALSE, value |-> v]

extract_text_from_first_page(pdf) ==
    IF ~pdf.ok THEN Raised
    ELSE IF Len(pdf.pages) > 0 THEN Returned(pdf.pages[1])
    ELSE Returned(<<>>)

(***************************************************************************)
(* ZIP archives: a sequence of entries <<extension, pdf>>; the entry at    *)
(* position k is named <<k, extension>>.                                   *)
(***************************************************************************)
Lower(ext) == IF ext = ".PDF" THEN ".pdf" ELSE ext
NameOf(z, k) == <<k, z[k][1]>>
namelist(z) == [k \in 1..Len(z) |-> NameOf(z, k)]
read(z, name) == z[name[1]][2]

\* [f for f in z.namelist() if f.lower().endswith(".pdf")]
RECURSIVE FilterPdf(_)
FilterPdf(names) ==
    IF names = <<>> THEN <<>>
    ELSE IF Lower(Head(names)[2]) = ".pdf"
         THEN <<Head(names)>> \o FilterPdf(Tail(names))
         ELSE FilterPdf(Tail(names))
pdf_files_of(z) == FilterPdf(namelist(z))

\* mutant: a record is put in front of its list
loop_body_prepend(z, pdf_name, acc) ==
    LET got == extract_text_from_first_page(read(z, pdf_name)) IN
    IF got.raised THEN [raised |-> TRUE, acc |-> acc]
    ELSE LET dt == detect_document_type(got.value) IN
         IF dt = None
         THEN [raised |-> FALSE, acc |-> [acc EXCEPT !.skipped = Append(@, pdf_name)]]
         ELSE LET d == DictSet(extract_data_by_type(got.value, dt), "Source File", pdf_name)
              IN IF dt = TYPE_1
                 THEN [raised |-> FALSE, acc |-> [acc EXCEPT !.t1 = <<d>> \o @]]
                 ELSE [raised |-> FALSE, acc |-> [acc EXCEPT !.t2 = <<d>> \o @]]

\* The body of the loop over pdf_files, common to both programs: acc holds
\* the two lists and the names skipped as unknown (streamlit.py warns).
loop_body(z, pdf_name, acc) ==
    LET pdf_bytes == read(z, pdf_name)
        got == extract_text_from_first_page(pdf_bytes)
    IN IF got.raised THEN [raised |-> TRUE, acc |-> acc]
       ELSE LET t == got.value
                dt == detect_document_type(t)
            IN IF dt = None
               THEN [raised |-> FALSE,
                     acc |-> [acc EXCEPT !.skipped = Append(@, pdf_name)]]
               ELSE LET d == DictSet(extract_data_by_type(t, dt), "Source File", pdf_name)
                    IN IF dt = TYPE_1
                       THEN [raised |-> FALSE, acc |-> [acc EXCEPT !.t1 = Append(@, d)]]
                       ELSE [raised |-> FALSE, acc |-> [acc EXCEPT !.t2 = Append(@, d)]]

EmptyAcc == [t1 |-> <<>>, t2 |-> <<>>, skipped |-> <<>>]

\* app.py: process_zip_file(uploaded_zip_bytes); an exception of the loop
\* body leaves the function
RECURSIVE process_from(_, _, _, _)
process_from(z, files, k, acc) ==
    IF k > Len(files) THEN Returned(<<acc.t1, acc.t2>>)
    ELSE LET r == loop_body(z, files[k], acc) IN
         IF r.raised THEN Raised ELSE process_from(z, files, k + 1, r.acc)

process_zip_file(z) == process_from(z, pdf_files_of(z), 1, EmptyAcc)

(***************************************************************************)
(* State                                                                   *)
(***************************************************************************)
VARIABLES
    text, arg_type, doc_type, data, pc,          \* one call of the core functions
    program, zip, i, acc, errors, bpc,           \* one run of the batch loop
    uploaded_zip, session_state, cache, shown    \* an app.py session

coreVars == <<text, arg_type, doc_type, data, pc>>
batchVars == <<program, zip, i, acc, errors, bpc>>
sessionVars == <<uploaded_zip, session_state, cache, shown>>
vars == <<coreVars, batchVars, sessionVars>>

CoreIdle ==
    /\ text = <<>> /\ arg_type = TYPE_1 /\ doc_type = None /\ data = <<>> /\ pc = "idle"
BatchIdle ==
    /\ program = "none" /\ zip = <<>> /\ i = 0 /\ acc = EmptyAcc /\ errors = <<>>
    /\ bpc = "idle"
NoFile == [name |-> None, bytes |-> <<>>, present |-> FALSE]
File(name, bytes) == [name |-> name, bytes |-> bytes, present |-> TRUE]
Nothing == [kind |-> "nothing"]
SessionIdle ==
    /\ uploaded_zip = NoFile
    /\ session_state = [has_processed_data |-> FALSE, processed_data |-> <<>>,
                        last_uploaded |-> None]
    /\ cache = {}
    /\ shown = Nothing

(***************************************************************************)
(* The core functions applied to one text                                  *)
(***************************************************************************)
CoreInit(chunks, types) ==
    /\ text \in Texts(chunks, MaxChunks) \cup {ScenarioA, ScenarioB, ScenarioBoth}
    /\ arg_type \in types
    /\ doc_type = None
    /\ data = <<>>
    /\ pc = "start"
    /\ BatchIdle /\ SessionIdle

Detect ==
    /\ pc = "start"
    /\ doc_type' = detect_document_type(text)
    /\ pc' = "detected"
    /\ UNCHANGED <<text, arg_type, data, batchVars, sessionVars>>

Extract ==
    /\ pc = "detected"
    /\ data' = extract_data_by_type(text, arg_type)
    /\ pc' = "extracted"
    /\ UNCHANGED <<text, arg_type, doc_type, batchVars, sessionVars>>

NextCore == Detect \/ Extract

\* texts around the two type markers
ChunksClassify ==
    {L_DocumentNo, L_StoreIDandName, Words(<<"Document", "No">>), <<"x">>, <<NL>>}
SpecClassify == CoreInit(ChunksClassify, {TYPE_2}) /\ [][NextCore]_vars

\* lines of a TypeA page: labels of the three pattern shapes and a value
ChunksFields ==
    {L_StoreIDandName \o <<NL>>, L_Tracker \o <<NL>>, L_ContractorPresent \o <<NL>>,
     <<"x", NL>>}
SpecFields == CoreInit(ChunksFields, {TYPE_1, TYPE_2}) /\ [][NextCore]_vars

\* words of the labels "Contractor PIC" and "Contractor Present", apart
ChunksLabels == {<<"Contractor">>, <<"PIC">>, <<"Present">>, <<SP>>, <<"x">>}
SpecLabels == CoreInit(ChunksLabels, {TYPE_1, TYPE_2}) /\ [][NextCore]_vars

\* a bounded and a single-line capture around mixed whitespace
ChunksWhitespace ==
    {L_Tracker \o <<NL>>, <<NL>> \o L_Inspector, <<"x">>, <<SP>>, <<NL>>, <<TAB>>}
SpecWhitespace == CoreInit(ChunksWhitespace, {TYPE_1}) /\ [][NextCore]_vars

\* the two sections of a TypeB page: header, value, "Name", name
ChunksCompound ==
    {L_ContractorPresent \o <<NL, "x", NL>> \o L_Name \o <<NL>>,
     L_ProjectPICPresent \o <<NL, "x", NL>> \o L_Name \o <<NL>>,
     L_ContractorPresent \o <<NL, "x", NL>>, L_Name \o <<NL>>, <<"x", NL>>, <<"y", NL>>}
SpecCompound == CoreInit(ChunksCompound, {TYPE_2}) /\ [][NextCore]_vars

\* single-line labels on their own line, values and blanks
ChunksSingleLine ==
    {L_Inspector \o <<NL>>, L_ContractorPresent \o <<NL>>, <<"x", NL>>, <<"x", SP>>, <<NL>>}
SpecSingleLine == CoreInit(ChunksSingleLine, {TYPE_1, TYPE_2}) /\ [][NextCore]_vars

(***************************************************************************)
(* The batch loop: streamlit.py lines 115-137, app.py lines 102-115        *)
(***************************************************************************)
MaxDocs == 3

DocA == <<"x", NL>> \o L_StoreIDandName \o <<NL, "y", NL>> \o L_Tracker
DocB == L_DocumentNo \o <<NL, "x">>
DocU == <<"x">>
PdfPool == {Pdf(<<DocA>>), Pdf(<<DocB, DocA>>), Pdf(<<DocU>>), CorruptPdf}
Entries == ({".pdf", ".PDF"} \X PdfPool) \cup {<<".txt", Pdf(<<DocA>>)>>}
Zips == UNION { [1..k -> Entries] : k \in 0..MaxDocs }

BatchInit ==
    /\ program \in {"app.py", "streamlit.py"}
    /\ zip \in Zips
    /\ i = 1
    /\ acc = EmptyAcc
    /\ errors = <<>>
    /\ bpc = "loop"
    /\ CoreIdle /\ SessionIdle

pdf_files == pdf_files_of(zip)

\* streamlit.py: the body runs inside try/except Exception
StreamlitIteration ==
    /\ program = "streamlit.py" /\ bpc = "loop" /\ i <= Len(pdf_files)
    /\ LET r == loop_body(zip, pdf_files[i], acc) IN
         IF r.raised
         THEN errors' = Append(errors, pdf_files[i]) /\ acc' = acc
         ELSE errors' = errors /\ acc' = r.acc
    /\ i' = i + 1
    /\ UNCHANGED <<program, zip, bpc, coreVars, sessionVars>>

\* app.py: no handler; the exception leaves process_zip_file
AppIteration ==
    /\ program = "app.py" /\ bpc = "loop" /\ i <= Len(pdf_files)
    /\ LET r == loop_body(zip, pdf_files[i], acc) IN
         IF r.raised
         THEN bpc' = "raised" /\ acc' = acc /\ i' = i
         ELSE bpc' = bpc /\ acc' = r.acc /\ i' = i + 1
    /\ UNCHANGED <<program, zip, errors, coreVars, sessionVars>>

Finish ==
    /\ bpc = "loop" /\ i > Len(pdf_files)
    /\ bpc' = "done"
    /\ UNCHANGED <<program, zip, i, acc, errors, coreVars, sessionVars>>

NextBatch == StreamlitIteration \/ AppIteration \/ Finish
SpecBatch == BatchInit /\ [][NextBatch]_vars

(***************************************************************************)
(* An app.py session: each interaction reruns the script (lines 131-159)   *)
(***************************************************************************)
Zip1 == << <<".pdf", Pdf(<<DocA>>)>> >>
Zip2 == << <<".pdf", Pdf(<<DocB>>)>>, <<".pdf", Pdf(<<DocA>>)>> >>
Zip3 == << <<".pdf", Pdf(<<DocA>>)>>, <<".pdf", CorruptPdf>> >>
Zip4 == << <<".txt", Pdf(<<DocA>>)>>, <<".PDF", Pdf(<<DocU>>)>> >>
ZipPool == {Zip1, Zip2, Zip3, Zip4}
Files == { File(Str(<<n>>), z) : n \in {"a.zip", "b.zip"}, z \in ZipPool }

SessionInit == SessionIdle /\ CoreIdle /\ BatchIdle

Exception == [kind |-> "exception"]
Data(v) == [kind |-> "data", value |-> v]

\* @st.cache_data: the stored return value for these bytes, or a call
Cached(bytes) == { e \in cache : e[1] = bytes }

\* one run of the script with f in the uploader
ScriptRun(f) ==
    /\ uploaded_zip' = f
    /\ IF ~f.present
       THEN shown' = Nothing /\ UNCHANGED <<session_state, cache>>
       ELSE IF ~session_state.has_processed_data \/ session_state.last_uploaded # f.name
       THEN LET uploaded_bytes == f.bytes
                hit == Cached(uploaded_bytes)
                r == IF hit # {} THEN Returned((CHOOSE e \in hit : TRUE)[2])
                     ELSE process_zip_file(uploaded_bytes)
            IN IF r.raised
               THEN /\ session_state' = [session_state EXCEPT !.last_uploaded = f.name]
                    /\ shown' = Exception
                    /\ cache' = cache
               ELSE /\ session_state' = [has_processed_data |-> TRUE,
                                          processed_data |-> r.value,
                                          last_uploaded |-> f.name]
                    /\ shown' = Data(r.value)
                    /\ cache' = cache \cup {<<uploaded_bytes, r.value>>}
       ELSE \* Reuse cached results if same file
            /\ shown' = Data(session_state.processed_data)
            /\ UNCHANGED <<session_state, cache>>
    /\ UNCHANGED <<coreVars, batchVars>>

Upload == \E f \in Files : ScriptRun(f)
Remove == uploaded_zip.present /\ ScriptRun(NoFile)
Rerun == ScriptRun(uploaded_zip)

NextSession == Upload \/ Remove \/ Rerun
SpecSession == SessionInit /\ [][NextSession]_vars

(***************************************************************************)
(* Properties                                                              *)
(***************************************************************************)
\* s occurs in t as a contiguous piece
Contains(t, s) == \E k \in 1..(Len(t) - Len(s) + 1) : SubSeq(t, k, k + Len(s) - 1) = s
\* the first place where s occurs in t
FirstAt(t, s) ==
    CHOOSE k \in 1..(Len(t) - Len(s) + 1) :
        /\ SubSeq(t, k, k + Len(s) - 1) = s
        /\ \A j \in 1..(k - 1) : SubSeq(t, j, j + Len(s) - 1) # s

MarkerTypeB == <<"Document", SP, "No", ".">>
MarkerTypeA == <<"Store", SP, "ID", SP, "and", SP, "Name">>

FieldsTypeA ==
    <<"Inspection", "Store ID and Name", "Tracker", "Inspector", "Project Team PIC",
      "Project Team Present", "Contractor PIC", "Contractor Present", "Issue Date",
      "Inspection Date", "Report Date", "Handover Date">>
FieldsTypeB ==
    <<"Document No.", "Audit Title", "Site Name", "Location", "Contractor Present",
      "Contractor Name", "Project PIC Present", "Project PIC Name", "Inspected by",
      "Inspection Date", "Prepared by">>
FieldsOf(type) == IF type = TYPE_1 THEN FieldsTypeA ELSE FieldsTypeB
RulesOf(type) == IF type = TYPE_1 THEN PATTERNS_TYPE_1 ELSE PATTERNS_TYPE_2

\* C1: detect_document_type is total and three-way with fixed precedence:
\* the result is type_2 when the text contains "Document No.", otherwise
\* type_1 when it contains "Store ID and Name", otherwise None.
C1_Classify ==
    pc \in {"detected", "extracted"} =>
        doc_type = IF Contains(text, MarkerTypeB) THEN TYPE_2
                   ELSE IF Contains(text, MarkerTypeA) THEN TYPE_1
                   ELSE None

\* both markers, "Store ID and Name" first, classified type_2
C1_Witness ==
    /\ pc = "detected"
    /\ Contains(text, MarkerTypeA) /\ Contains(text, MarkerTypeB)
    /\ FirstAt(text, MarkerTypeA) < FirstAt(text, MarkerTypeB)
    /\ doc_type = TYPE_2

(***************************************************************************)
(* The language of a pattern, without backtracking order: EndsOf(p, k, t,  *)
(* S) is the set of positions where nodes k.. of p can end when started    *)
(* at a position of S.                                                     *)
(***************************************************************************)
AllIn(cls, t, a, b) == \A m \in a..b : InClass(cls, t[m])

RECURSIVE EndsOf(_, _, _, _)
EndsOf(p, k, t, S) ==
    IF k > Len(p) \/ S = {} THEN S
    ELSE LET n == p[k] IN
      CASE n.op = "lit" ->
             EndsOf(p, k + 1, t,
                    {a + Len(n.s) : a \in {b \in S : b + Len(n.s) - 1 <= Len(t)
                                                    /\ SubSeq(t, b, b + Len(n.s) - 1) = n.s}})
        [] n.op \in {"(", ")"} -> EndsOf(p, k + 1, t, S)
        [] n.op \in {"+", "+?"} ->
             EndsOf(p, k + 1, t,
                    {e \in 2..(Len(t) + 1) : \E a \in S : a < e /\ AllIn(n.cls, t, a, e - 1)})
        [] n.op = "(?=" ->
             EndsOf(p, k + 1, t, {a \in S : EndsOf(n.sub, 1, t, {a}) # {}})

HasMatch(p, t) == EndsOf(p, 1, t, 1..(Len(t) + 1)) # {}

\* C4: extract_data_by_type never fails and treats fields independently:
\* every field of the rule set is present in the record; its value is what
\* its own pattern gives on the text, None exactly when that pattern has no
\* match in the text, whatever the other fields did; a text that no pattern
\* matches (the empty text among them) gives None for every field.
C4_FieldsIndependent ==
    pc = "extracted" =>
        LET rules == RulesOf(arg_type) IN
        /\ \A k \in 1..Len(rules) :
              /\ DictHas(data, FieldsOf(arg_type)[k])
              /\ DictGet(data, FieldsOf(arg_type)[k]) = extract_field(text, rules[k][2])
              /\ (DictGet(data, FieldsOf(arg_type)[k]) = None) <=> ~HasMatch(rules[k][2], text)
        /\ text = <<>> => \A k \in 1..Len(rules) : DictGet(data, FieldsOf(arg_type)[k]) = None

\* a field without a match precedes a field with one
C4_Witness ==
    /\ pc = "extracted"
    /\ \E k1, k2 \in 1..Len(data) :
          /\ k1 < k2 /\ k2 <= Len(FieldsOf(arg_type))
          /\ data[k1][2] = None
          /\ data[k2][2] # None /\ data[k2][2] # Str(<<>>)

\* The label(s) a field is anchored on (section 4.2): the field's own name,
\* except "Inspection" (anchored on the "Store ID and Name" marker that
\* follows it) and the two compound fields (section header, then "Name").
LabelsOf(field) ==
    CASE field = "Inspection" -> {<<"Store", SP, "ID", SP, "and", SP, "Name">>}
      [] field = "Store ID and Name" -> {<<"Store", SP, "ID", SP, "and", SP, "Name">>}
      [] field = "Tracker" -> {<<"Tracker">>}
      [] field = "Inspector" -> {<<"Inspector">>}
      [] field = "Project Team PIC" -> {<<"Project", SP, "Team", SP, "PIC">>}
      [] field = "Project Team Present" -> {<<"Project", SP, "Team", SP, "Present">>}
      [] field = "Contractor PIC" -> {<<"Contractor", SP, "PIC">>}
      [] field = "Contractor Present" -> {<<"Contractor", SP, "Present">>}
      [] field = "Issue Date" -> {<<"Issue", SP, "Date">>}
      [] field = "Inspection Date" -> {<<"Inspection", SP, "Date">>}
      [] field = "Report Date" -> {<<"Report", SP, "Date">>}
      [] field = "Handover Date" -> {<<"Handover", SP, "Date">>}
      [] field = "Document No." -> {<<"Document", SP, "No", ".">>}
      [] field = "Audit Title" -> {<<"Audit", SP, "Title">>}
      [] field = "Site Name" -> {<<"Site", SP, "Name">>}
      [] field = "Location" -> {<<"Location">>}
      [] field = "Contractor Name" -> {<<"Contractor", SP, "Present">>, <<"Name">>}
      [] field = "Project PIC Present" -> {<<"Project", SP, "PIC", SP, "Present">>}
      [] field = "Project PIC Name" -> {<<"Project", SP, "PIC", SP, "Present">>, <<"Name">>}
      [] field = "Inspected by" -> {<<"Inspected", SP, "by">>}
      [] field = "Prepared by" -> {<<"Prepared", SP, "by">>}

LabelAbsent(field, t) == \E lab \in LabelsOf(field) : ~Contains(t, lab)

\* C5: a field whose label does not occur in the text is None in the
\* record: not the empty string, and not a string captured through another
\* label.
C5_AbsentLabelIsNone ==
    pc = "extracted" =>
        \A k \in 1..Len(FieldsOf(arg_type)) :
            LET field == FieldsOf(arg_type)[k] IN
            LabelAbsent(field, text) => DictHas(data, field) /\ DictGet(data, field) = None

\* "Contractor Present" is absent although both of its words occur, and
\* "Contractor PIC" is extracted from the same text
C5_Witness ==
    /\ pc = "extracted" /\ arg_type = TYPE_1
    /\ ~Contains(text, <<"Contractor", SP, "Present">>)
    /\ Contains(text, <<"Contractor">>) /\ Contains(text, <<"Present">>)
    /\ DictGet(data, "Contractor Present") = None
    /\ DictGet(data, "Contractor PIC") \notin {None, Str(<<>>)}

\* the words of s: its maximal runs of non-whitespace, in order
WordStarts(s) == {a \in 1..Len(s) : ~IsSpace(s[a]) /\ (a = 1 \/ IsSpace(s[a - 1]))}
WordEnd(s, a) == CHOOSE b \in a..Len(s) :
                    /\ \A m \in a..b : ~IsSpace(s[m])
                    /\ (b = Len(s) \/ IsSpace(s[b + 1]))
WordSet(s) == {<<Cardinality({b \in WordStarts(s) : b < a}) + 1, SubSeq(s, a, WordEnd(s, a))>> :
                  a \in WordStarts(s)}

Normalized(v) ==
    /\ v # <<>> => ~IsSpace(v[1]) /\ ~IsSpace(v[Len(v)])
    /\ \A j \in 1..Len(v) : v[j] \notin {TAB, NL}
    /\ \A j \in 1..(Len(v) - 1) : ~(IsSpace(v[j]) /\ IsSpace(v[j + 1]))

\* C6: every value of a record that is not None has no leading or trailing
\* whitespace, no tab, no newline and no two adjacent whitespace characters;
\* its words are the words of the captured region, in order; normalizing it
\* again leaves it unchanged.
C6_WhitespaceNormalized ==
    pc = "extracted" =>
        \A k \in 1..Len(RulesOf(arg_type)) :
            LET v == data[k][2]
                m == re_search(RulesOf(arg_type)[k][2], text)
            IN v # None =>
                 /\ Normalized(Val(v))
                 /\ WordSet(Val(v)) = WordSet(group1(text, m))
                 /\ normalize(Val(v)) = Val(v)

\* a captured region with a tab or a newline or two adjacent whitespace
\* characters between two words
C6_Witness ==
    /\ pc = "extracted"
    /\ \E k \in 1..Len(RulesOf(arg_type)) :
          LET v == data[k][2]
              c == group1(text, re_search(RulesOf(arg_type)[k][2], text))
          IN /\ v # None
             /\ Cardinality(WordStarts(Val(v))) >= 2
             /\ \E j \in 1..(Len(c) - 1) : IsSpace(c[j]) /\ (c[j] # SP \/ IsSpace(c[j + 1]))
             /\ Val(v) # c

\* the end of the line that position a is on: the next newline, or Len + 1
LineEnd(t, a) ==
    CHOOSE e \in a..(Len(t) + 1) :
        /\ \A m \in a..(e - 1) : t[m] # NL
        /\ (e = Len(t) + 1 \/ t[e] = NL)
\* the line after the line that position c is on
LineAfter(t, c) ==
    LET e == LineEnd(t, c) IN
    IF e > Len(t) THEN <<>> ELSE SubSeq(t, e + 1, LineEnd(t, e + 1) - 1)
Occurrences(t, s) == {k \in 1..(Len(t) - Len(s) + 1) : SubSeq(t, k, k + Len(s) - 1) = s}

HasWord(s) == \E m \in 1..Len(s) : ~IsSpace(s[m])

HeaderCP == <<"Contractor", SP, "Present">>
HeaderPP == <<"Project", SP, "PIC", SP, "Present">>
CompoundFields == {<<"Contractor Name", HeaderCP>>, <<"Project PIC Name", HeaderPP>>}

\* the positions of a "Name" label that ends a later line than a header at
\* h and has a line with text after it
NameOnLaterLine(t, h, len) ==
    {c \in (h + len)..Len(t) :
        /\ t[c] = "Name" /\ (c = Len(t) \/ t[c + 1] = NL)
        /\ \E m \in (h + len)..(c - 1) : t[m] = NL
        /\ HasWord(LineAfter(t, c))}
\* the section of the header at h: up to the other header, or to the end
SectionEnd(t, h, other) ==
    IF \E o \in Occurrences(t, other) : o > h
    THEN (CHOOSE o \in Occurrences(t, other) :
            o > h /\ \A o2 \in Occurrences(t, other) : o2 > h => o <= o2) - 1
    ELSE Len(t)

\* C7 as stated: a compound field is not None whenever its header is
\* followed by a "Name" label on a later line, and its value is the line
\* after that label; with both sections present, each with a "Name", each
\* field is taken from its own section.
C7_AsStated ==
    pc = "extracted" /\ arg_type = TYPE_2 =>
        \A fh \in CompoundFields :
            LET v == DictGet(data, fh[1])
                other == IF fh[2] = HeaderCP THEN HeaderPP ELSE HeaderCP
            IN /\ \A h \in Occurrences(text, fh[2]) :
                    NameOnLaterLine(text, h, Len(fh[2])) # {} =>
                        /\ v # None
                        /\ \E h2 \in Occurrences(text, fh[2]) :
                             \E c \in NameOnLaterLine(text, h2, Len(fh[2])) :
                                 v = Str(normalize(LineAfter(text, c)))
               /\ (/\ Contains(text, HeaderCP) /\ Contains(text, HeaderPP)
                   /\ \A h \in Occurrences(text, HeaderCP) \cup Occurrences(text, HeaderPP) :
                         \E c \in h..Len(text) : text[c] = "Name")
                  => (v # None =>
                       \E h \in Occurrences(text, fh[2]) :
                           \E c \in h..SectionEnd(text, h, other) :
                               text[c] = "Name" /\ v = Str(normalize(LineAfter(text, c))))

\* header, whitespace, one stretch of text without a newline, whitespace,
\* "Name", whitespace, and one more character that is not a newline
CompoundShape(t, header) ==
    \E h \in Occurrences(t, header) :
      \E c \in {m \in (h + Len(header))..Len(t) : t[m] = "Name"} :
        /\ \E d \in (c + 2)..Len(t) :
              t[d] # NL /\ \A m \in (c + 1)..(d - 1) : IsSpace(t[m])
        /\ \E b \in (h + Len(header) + 2)..(c - 1) :
              /\ \A m \in b..(c - 1) : IsSpace(t[m])
              /\ \E a \in (h + Len(header) + 1)..(b - 1) :
                    /\ \A m \in a..(b - 1) : t[m] # NL
                    /\ \A m \in (h + Len(header))..(a - 1) : IsSpace(t[m])

\* the first header starts the layout: header at the end of its line, one
\* value line, a line that is "Name", one name line
LayoutAt(t, header) ==
    LET h == FirstAt(t, header)
        e0 == h + Len(header)
        e1 == LineEnd(t, e0 + 1)
    IN /\ e0 <= Len(t) /\ t[e0] = NL
       /\ HasWord(SubSeq(t, e0 + 1, e1 - 1))
       /\ e1 + 2 <= Len(t)
       /\ t[e1] = NL /\ t[e1 + 1] = "Name" /\ t[e1 + 2] = NL
       /\ HasWord(LineAfter(t, e1 + 1))

\* C7 as amended: a compound field is not None exactly when its header is
\* followed by whitespace, one stretch of text within a single line,
\* whitespace, "Name", whitespace and a character that is not a newline;
\* where the first header is followed by one value line, a "Name" line and
\* a name line, the value is that name line, normalized, so that two such
\* sections give each field the name of its own section.
C7_Compound ==
    pc = "extracted" /\ arg_type = TYPE_2 =>
        \A fh \in CompoundFields :
            LET v == DictGet(data, fh[1]) IN
            /\ (v # None) <=> CompoundShape(text, fh[2])
            /\ Contains(text, fh[2]) /\ LayoutAt(text, fh[2]) =>
                  v = Str(normalize(LineAfter(text, LineEnd(text, FirstAt(text, fh[2]) + Len(fh[2]) + 1) + 1)))

\* both sections in the layout, with different names
C7_Witness ==
    /\ pc = "extracted" /\ arg_type = TYPE_2
    /\ Contains(text, HeaderCP) /\ Contains(text, HeaderPP)
    /\ LayoutAt(text, HeaderCP) /\ LayoutAt(text, HeaderPP)
    /\ DictGet(data, "Contractor Name") \notin {None, Str(<<>>)}
    /\ DictGet(data, "Project PIC Name") \notin {None, Str(<<>>)}
    /\ DictGet(data, "Contractor Name") # DictGet(data, "Project PIC Name")

MultiLineFields ==
    {"Inspection", "Store ID and Name", "Tracker", "Location", "Contractor Name",
     "Project PIC Name"}
TheLabel(field) == CHOOSE lab \in LabelsOf(field) : TRUE

\* the occurrences of a label that are followed by whitespace and, after
\* it, by some text that is not whitespace
LabelWithText(t, lab) ==
    {h \in Occurrences(t, lab) :
        /\ h + Len(lab) <= Len(t) /\ IsSpace(t[h + Len(lab)])
        /\ \E m \in (h + Len(lab))..Len(t) : ~IsSpace(t[m])}
Min(S) == CHOOSE a \in S : \A b \in S : a <= b
\* from the first text after the label at h to the end of its line
LineRemainder(t, h, len) ==
    LET d == Min({m \in (h + len)..Len(t) : ~IsSpace(t[m])}) IN
    SubSeq(t, d, LineEnd(t, d) - 1)

\* the part of C8 that the patterns do guarantee: a single-line field whose
\* label is followed by whitespace and text has the normalized remainder
\* of one line as its value
C8_OneLine ==
    pc = "extracted" =>
        \A k \in 1..Len(FieldsOf(arg_type)) :
            LET field == FieldsOf(arg_type)[k]
                occ == LabelWithText(text, TheLabel(field))
            IN field \notin MultiLineFields /\ occ # {} =>
                 DictGet(data, field) =
                     Str(normalize(LineRemainder(text, Min(occ), Len(TheLabel(field)))))

\* C8 as stated: a single-line field whose label is followed by text has
\* as its value the normalized remainder of one line after the first such
\* occurrence of the label, and that value is not the label of a subsequent
\* field of the rule set.
C8_SingleLine ==
    pc = "extracted" =>
        \A k \in 1..Len(FieldsOf(arg_type)) :
            LET field == FieldsOf(arg_type)[k]
                occ == LabelWithText(text, TheLabel(field))
                v == DictGet(data, field)
            IN field \notin MultiLineFields /\ occ # {} =>
                 /\ v = Str(normalize(LineRemainder(text, Min(occ), Len(TheLabel(field)))))
                 /\ \A m \in 1..Len(Val(v)) : Val(v)[m] # NL
                 /\ \A g \in (k + 1)..Len(FieldsOf(arg_type)) :
                       \A lab \in LabelsOf(FieldsOf(arg_type)[g]) : v # Str(lab)

(***************************************************************************)
(* Properties of the batch loop                                            *)
(***************************************************************************)
Unreadable == Str(<<"unreadable">>)
\* what the document named nm is: unreadable, or the type of its first page
ClassOf(z, nm) ==
    LET pdf == z[nm[1]][2] IN
    IF ~pdf.ok THEN Unreadable
    ELSE LET t == IF pdf.pages = <<>> THEN <<>> ELSE pdf.pages[1] IN
         IF Contains(t, MarkerTypeB) THEN TYPE_2
         ELSE IF Contains(t, MarkerTypeA) THEN TYPE_1
         ELSE None
\* the documents presented to the loop: the entries named *.pdf, any case
Presented(z) == SelectSeq(namelist(z), LAMBDA nm : nm[2] \in {".pdf", ".PDF"})
OfClass(z, type) == SelectSeq(Presented(z), LAMBDA nm : ClassOf(z, nm) = type)
SourceFiles(records) ==
    [k \in 1..Len(records) |-> DictGet(records[k], "Source File")]

\* C2: when the loop has run to its end, the type_1 list holds one record
\* for each presented document of type_1 and no other, the type_2 list
\* likewise, each in the order of presentation; documents of unknown type
\* give no record, and the records number the documents of known type.
C2_Partition ==
    bpc = "done" =>
        /\ SourceFiles(acc.t1) = OfClass(zip, TYPE_1)
        /\ SourceFiles(acc.t2) = OfClass(zip, TYPE_2)
        /\ Len(acc.t1) + Len(acc.t2) =
             Cardinality({k \in 1..Len(Presented(zip)) :
                             ClassOf(zip, Presented(zip)[k]) \in {TYPE_1, TYPE_2}})
        /\ acc.skipped = OfClass(zip, None)

\* three documents, one of them unknown, two of one type and in order
C2_Witness ==
    /\ bpc = "done"
    /\ Len(Presented(zip)) = 3
    /\ Len(OfClass(zip, None)) = 1
    /\ Len(acc.t1) = 2 \/ Len(acc.t2) = 2

\* C3: every record of the two lists has as keys the field names of its
\* rule set in order, then "Document Type", then "Source File"; its
\* Document Type is the type of its list and of its document, and its
\* Source File names that document.
RecordOk(rec, type) ==
    /\ DictKeys(rec) = FieldsOf(type) \o <<"Document Type", "Source File">>
    /\ DictGet(rec, "Document Type") = type
    /\ \E k \in 1..Len(Presented(zip)) :
          /\ DictGet(rec, "Source File") = Presented(zip)[k]
          /\ ClassOf(zip, Presented(zip)[k]) = type

C3_RecordKeys ==
    /\ \A k \in 1..Len(acc.t1) : RecordOk(acc.t1[k], TYPE_1)
    /\ \A k \in 1..Len(acc.t2) : RecordOk(acc.t2[k], TYPE_2)

\* a record of each type; the type_1 record has matched and absent fields
C3_Witness ==
    /\ Len(acc.t1) >= 1 /\ Len(acc.t2) >= 1
    /\ \E j, k \in 1..Len(FieldsTypeA) :
          acc.t1[1][j][2] = None /\ acc.t1[1][k][2] \notin {None, Str(<<>>)}

\* C10 as stated, for both programs: when the loop has stopped, every
\* presented document that could be read and has a known type has its
\* record, in input order, also the documents after one that raised; the
\* document that raised has none.
C10_FailureIsolation ==
    bpc \in {"done", "raised"} =>
        /\ SourceFiles(acc.t1) = OfClass(zip, TYPE_1)
        /\ SourceFiles(acc.t2) = OfClass(zip, TYPE_2)

\* the same for streamlit.py alone, whose loop body is in try/except
C10_StreamlitOnly ==
    program = "streamlit.py" /\ bpc = "done" =>
        /\ SourceFiles(acc.t1) = OfClass(zip, TYPE_1)
        /\ SourceFiles(acc.t2) = OfClass(zip, TYPE_2)
        /\ errors = OfClass(zip, Unreadable)

(***************************************************************************)
(* Properties of the session                                               *)
(***************************************************************************)
\* C9 as stated: the lists shown are those of process_zip_file on the
\* bytes of the ZIP that is in the uploader.
C9_ShownIsCurrent ==
    uploaded_zip.present /\ shown.kind = "data" =>
        LET r == process_zip_file(uploaded_zip.bytes) IN
        ~r.raised /\ shown.value = r.value

====
